---- MODULE Spec2Model ----
(***************************************************************************)
(* Model of the xdmod-notebooks example notebooks: the credential file     *)
(* cell, the load and construction cells, and every `with dw:` runtime     *)
(* context with the queries inside it and the processing after it, the     *)
(* scikit-learn cells of the machine learning notebook included.           *)
(*                                                                         *)
(* A notebook is a sequence of statements grouped in cells.  The kernel    *)
(* runs them in document order.  A statement that raises aborts its cell   *)
(* (after the `with` statement has called __exit__ when the statement is   *)
(* in a with body); the user then either goes on with the next cell or     *)
(* stops.  Calls into the external libraries (xdmod_data, the file         *)
(* system) may return or raise: the model takes both outcomes.             *)
(***************************************************************************)
EXTENDS Integers, Sequences, FiniteSets, TLC

VARIABLES
    nb,         \* the notebook being run
    pc,         \* index of the next statement of the notebook
    status,     \* "running", "halted" (the user stopped after an error), "done"
    session,    \* "open" inside a runtime context of dw, else "closed"
    pending,    \* the exception in flight in a with body, or "none"
    scopeExits, \* number of __exit__ calls of the last runtime context entered
    exitVia,    \* how the last runtime context was left: "none", "normal", "error"
    dwBound,    \* TRUE once `dw = DataWarehouse(...)` has bound dw
    kernel,     \* the notebook's variables that hold query results
    fs,         \* the file ~/xdmod-data.env
    environ,    \* os.environ['XDMOD_API_TOKEN'], or "unset"
    shown,      \* what the cell printed on stderr: an exception type, or "none"
    loaded,     \* TRUE once load_dotenv(...) has run in this kernel
    inFlight,   \* the statements whose call of a dw method has not returned yet
    everClosed, \* TRUE once a runtime context of dw has been left in this kernel
    envAtStart, \* the value XDMOD_API_TOKEN had when the kernel started
    otherEnv,   \* os.environ['HOME'], a variable the file does not name
    ml          \* the train/test split, the classifier and its confusion matrix

vars == <<nb, pc, status, session, pending, scopeExits, exitVia, dwBound,
          kernel, fs, environ, shown, loaded,
          inFlight, everClosed, envAtStart, otherEnv, ml>>

----------------------------------------------------------------------------
(* Statements *)

S(op, method, var, cell, line) ==
    [op |-> op, method |-> method, var |-> var, cell |-> cell, line |-> line]

\* The cell that creates ~/xdmod-data.env when it does not exist.
EnvFileCell(c, l) ==
    << S("probe", "open", "", c, l + 4),
       S("creat", "open", "", c, l + 7),
       S("write", "write", "", c, l + 8),
       S("chmod", "chmod", "", c, l + 9) >>

\* Fault variant of SetupCells: dw is constructed before the file is loaded.
SetupCells_DwFirst(c, lStore, lLoad, lNew) ==
    << S("store", "edit", "", c, lStore),
       S("new", "DataWarehouse", "", c + 1, lNew),
       S("load", "load_dotenv", "", c + 2, lLoad) >>

\* The markdown step "paste your token after XDMOD_API_TOKEN=", the load
\* cell and the cell that constructs dw.
SetupCells(c, lStore, lLoad, lNew) ==
    << S("store", "edit", "", c, lStore),
       S("load", "load_dotenv", "", c + 1, lLoad),
       S("new", "DataWarehouse", "", c + 2, lNew) >>

\* Fault variant of Scope: the call of dw's method is not wrapped in a with.
Scope_NoWith(c, first, last, method, var) ==
    << S("query", method, var, c, first + 1) >>

\* with dw: var = dw.method(...)
Scope(c, first, last, method, var) ==
    << S("enter", "with", "", c, first),
       S("query", method, var, c, first + 1),
       S("exit", "with", "", c, last) >>

\* with dw: pass
EmptyScope(c, first, last) ==
    << S("enter", "with", "", c, first),
       S("exit", "with", "", c, last) >>

Use(c, method, var, line) == << S("use", method, var, c, line) >>

\* A statement of the scikit-learn cells.
Learn(c, method, line) == << S("learn", method, "", c, line) >>

----------------------------------------------------------------------------
(* The notebooks *)

\* XDMoD Data Analytics Framework - First Example.
FirstExample ==
    EnvFileCell(1, 215) \o SetupCells(2, 244, 271, 292)
    \o Scope(5, 312, 317, "get_data", "data") \o Use(5, "display", "data", 318)
    \o Use(6, "type", "data", 336)
    \o Use(7, "plot", "data", 354)
    \o Use(8, "derive", "data", 377) \o Use(8, "display", "data", 378)
    \o Use(9, "plot_derived", "data", 396)
    \o EmptyScope(10, 432, 434)
    \o Scope(11, 456, 465, "get_data", "data")
    \o Scope(12, 489, 490, "get_data", "data")
    \o Scope(13, 508, 509, "get_durations", "durations")
    \o Use(13, "display", "durations", 510)
    \o Scope(14, 532, 533, "describe_realms", "realms")
    \o Use(14, "display", "realms", 534)
    \o Scope(15, 554, 555, "describe_metrics", "metrics")
    \o Use(15, "display", "metrics", 556)
    \o Scope(16, 580, 581, "describe_dimensions", "dimensions")
    \o Use(16, "display", "dimensions", 582)
    \o Scope(17, 601, 607, "get_data", "data") \o Use(17, "plot", "data", 608)
    \o Scope(18, 629, 635, "get_data", "data")
    \o Scope(19, 657, 658, "get_filter_values", "filter_values")
    \o Use(19, "display", "filter_values", 659)
    \o Scope(20, 677, 686, "get_data", "data")
    \o Scope(21, 709, 716, "get_data", "data") \o Use(21, "plot", "data", 717)
    \o << S("enter", "with", "", 22, 744),
          S("query", "get_aggregation_units", "_", 22, 745),
          S("use", "display", "_", 22, 745),
          S("exit", "with", "", 22, 745) >>

\* Fault variant of Refetch: the columns are not computed again on the new
\* table before the plot.
Refetch_NoDerive(c, first, last, lDerive, lPlot) ==
    Scope(c, first, last, "get_raw_data", "data")
    \o Use(c + 2, "plot_derived", "data", lPlot)

\* A cell that fetches `data` again, the cell that computes the columns
\* 'Wall Time (hours)' and 'Total memory used (GB)' on it, and the cell
\* that plots them.
Refetch(c, first, last, lDerive, lPlot) ==
    Scope(c, first, last, "get_raw_data", "data")
    \o Use(c + 1, "derive", "data", lDerive)
    \o Use(c + 2, "plot_derived", "data", lPlot)

\* XDMoD Data Analytics Framework - Raw Data Example.
RawDataExample ==
    EnvFileCell(1, 159) \o SetupCells(2, 186, 212, 232)
    \o Scope(5, 252, 257, "get_raw_data", "data")
    \o Use(6, "display", "data", 283)
    \o Use(7, "display", "data", 301)
    \o Use(8, "plot", "data", 319)
    \o Use(9, "derive", "data", 344)
    \o Use(10, "plot_derived", "data", 363)
    \o Use(11, "plot_derived", "data", 388)
    \o Use(12, "filter", "data", 413)
    \o Use(13, "plot_derived", "data", 423)
    \o Refetch(14, 447, 455, 473, 492)
    \o Refetch(17, 518, 531, 549, 560)
    \o EmptyScope(20, 596, 598)
    \o Scope(21, 634, 638, "get_raw_data", "data")
    \o Scope(22, 658, 659, "get_durations", "durations")
    \o Use(22, "display", "durations", 660)
    \o Scope(23, 681, 682, "describe_raw_realms", "raw_realms")
    \o Use(23, "display", "raw_realms", 683)
    \o Scope(24, 704, 705, "describe_raw_fields", "raw_fields")
    \o Use(24, "display", "raw_fields", 706)
    \o Scope(25, 727, 728, "describe_dimensions", "dimensions")
    \o Use(25, "display", "dimensions", 729)
    \o Scope(26, 749, 750, "get_filter_values", "filter_values")
    \o Use(26, "display", "filter_values", 751)
    \o Scope(27, 771, 783, "get_raw_data", "data")

\* XDMoD Data Analytics Framework - Machine Learning Example.
MachineLearningExample ==
    EnvFileCell(1, 148) \o SetupCells(2, 173, 197, 215)
    \o Scope(5, 237, 259, "get_raw_data", "data")
    \o Use(6, "display", "data", 277)
    \o Use(7, "value_counts", "data", 300)
    \o Use(8, "isin", "data", 325)
    \o Use(9, "display", "data", 334)
    \o Use(10, "dropna", "data", 354) \o Use(10, "display", "data", 355)
    \o Use(11, "astype", "data", 374)
    \o Learn(12, "split", 405)
    \o Learn(13, "fit", 430)
    \o Learn(14, "importances", 451)
    \o Learn(15, "confusion_matrix", 479)
    \o EmptyScope(16, 523, 525)
    \o Scope(17, 558, 562, "get_raw_data", "data")
    \o Scope(18, 580, 581, "get_durations", "durations")
    \o Use(18, "display", "durations", 582)
    \o Scope(19, 601, 602, "describe_raw_realms", "raw_realms")
    \o Use(19, "display", "raw_realms", 603)
    \o Scope(20, 622, 623, "describe_raw_fields", "raw_fields")
    \o Use(20, "display", "raw_fields", 624)
    \o Scope(21, 643, 644, "describe_dimensions", "dimensions")
    \o Use(21, "display", "dimensions", 645)
    \o Scope(22, 663, 664, "get_filter_values", "filter_values")
    \o Use(22, "display", "filter_values", 665)
    \o Scope(23, 683, 695, "get_raw_data", "data")

Notebooks == {"first", "raw", "ml"}

Program(n) ==
    CASE n = "first" -> FirstExample
      [] n = "raw"   -> RawDataExample
      [] n = "ml"    -> MachineLearningExample

Prog == Program(nb)
AtEnd == pc > Len(Prog)
Stmt == Prog[pc]
At(op) == status = "running" /\ ~AtEnd /\ Stmt.op = op

\* First statement of the cell after the one statement i is in.
NextCell(p, i) ==
    IF \E j \in (i + 1)..Len(p) : p[j].cell > p[i].cell
    THEN CHOOSE j \in (i + 1)..Len(p) :
             /\ p[j].cell > p[i].cell
             /\ \A k \in (i + 1)..(j - 1) : p[k].cell = p[i].cell
    ELSE Len(p) + 1

\* The statement that ends the with block statement i is in (or opens).
ScopeEnd(p, i) ==
    CHOOSE j \in i..Len(p) :
        /\ p[j].op = "exit"
        /\ \A k \in i..(j - 1) : p[k].op # "exit"

\* Statement i is in the body of a with block (its end included).
InBody(p, i) ==
    /\ i \in 1..Len(p)
    /\ p[i].op # "enter"
    /\ \E j \in 1..(i - 1) :
          /\ p[j].op = "enter"
          /\ \A k \in j..(i - 1) : p[k].op # "exit"

----------------------------------------------------------------------------
(* The credential file and the environment *)

TokenVar == "XDMOD_API_TOKEN"

\* Permission bits: 0o600, and the 0o666 that open(path, 'w') asks for.
OwnerRW == {"ur", "uw"}
CreateBits == {"ur", "uw", "gr", "gw", "or", "ow"}
\* Process umasks 0o022, 0o077 and 0.
Umasks == { {"gw", "ow"}, {"gr", "gw", "or", "ow"}, {} }

Tokens == {"tokA"}
InitialEnviron == {"unset", "stale"}

Absent == [exists |-> FALSE, mode |-> {}, content |-> << >>, origin |-> "none"]

\* A file the user made by hand before running the notebook.
UserFiles ==
    { [exists |-> TRUE, mode |-> m, content |-> << <<TokenVar, t>> >>,
       origin |-> "user"] : m \in {OwnerRW, CreateBits \ {"gw", "ow"}}, t \in Tokens }

\* Fault variant of FileFound: the cell never finds the file and always
\* takes the branch that writes it.
FileFound_Never(f) == FALSE

\* try: with open(xdmod_data_env_path): pass -- no FileNotFoundError.
FileFound(f) == f.exists

\* open(path, 'w'): creates the file with 0o666 & ~umask, or truncates it.
OpenForWrite(f, umask) ==
    IF f.exists
    THEN [f EXCEPT !.content = << >>]
    ELSE [exists |-> TRUE, mode |-> CreateBits \ umask, content |-> << >>,
          origin |-> "cell"]

\* xdmod_data_env_file.write('XDMOD_API_TOKEN='), flushed when the with ends.
WriteTokenLine(f) == [f EXCEPT !.content = << <<TokenVar, "">> >>]

\* xdmod_data_env_path.chmod(0o600)
Chmod600(f) == [f EXCEPT !.mode = OwnerRW]

\* An environment variable the credential file does not name.
OtherVar == "HOME"

\* The value the file gives to variable key: that of its last line for key;
\* env, the value the variable has, when the file has no such line or
\* cannot be read.
DotenvValue(f, key, env) ==
    IF f.exists /\ "ur" \in f.mode
       /\ \E i \in 1..Len(f.content) : f.content[i][1] = key
    THEN LET i == CHOOSE i \in 1..Len(f.content) :
                      /\ f.content[i][1] = key
                      /\ \A j \in (i + 1)..Len(f.content) : f.content[j][1] # key
         IN f.content[i][2]
    ELSE env

\* Fault variant of LoadDotenv: load_dotenv(path) without override=True, a
\* variable that is already set keeps its value.
LoadDotenv_NoOverride(f, env) ==
    IF env = "unset" THEN DotenvValue(f, TokenVar, env) ELSE env

\* load_dotenv(path, override=True): the file's value replaces the variable.
LoadDotenv(f, env) == DotenvValue(f, TokenVar, env)

----------------------------------------------------------------------------
(* The runtime context of dw *)

\* Exception types a call into an external library may raise.
Raises == {"RuntimeError", "KeyError"}
Outcomes == {"ok"} \cup Raises
\* __exit__ returns a false value, returns a true value, or raises.
ExitResults == {"falsy", "truthy"} \cup Raises

\* `with dw:` calls dw.__enter__(); the context is entered when it returns.
EnterScope(sess, outcome) == IF outcome = "ok" THEN "open" ELSE sess

\* Fault variant of ExitScope: the close leaves the session as it is.
ExitScope_StaysOpen(sess) == sess

\* Leaving the with block calls dw.__exit__(...).
ExitScope(sess) == "closed"

\* Fault variant of AfterQuery: a failing call tears the context down itself.
AfterQuery_ClosesOnError(sess, outcome) ==
    IF outcome = "ok" THEN sess ELSE "closed"

\* A call of a method of dw in the with body leaves the context as it is.
AfterQuery(sess, outcome) == sess

\* Fault variant of RaiseTarget: the exception leaves the cell without
\* passing through the end of the with block (no cleanup on the error path).
RaiseTarget_NoCleanup(p, i) == NextCell(p, i)

\* Where control goes when statement i raises: to the end of the with block
\* it is in (where __exit__ is called), else out of the cell.
RaiseTarget(p, i) == IF InBody(p, i) THEN ScopeEnd(p, i) ELSE NextCell(p, i)

\* Fault variant of EnterFailTarget: the body runs although the context was
\* not entered.
EnterFailTarget_IntoBody(p, i) == i + 1

\* Where control goes when `with dw:` at i fails to enter: past the block
\* and out of the cell, the body skipped.
EnterFailTarget(p, i) == NextCell(p, i)

\* Fault variant of AfterCall: the call does not block, the next statement
\* runs while the request is still in flight.
AfterCall_NoWait(i) == i + 1

\* A call of a method of dw is synchronous: control stays at the statement
\* until the call has returned or raised.
AfterCall(i) == i

\* Fault variant of AfterFailedQuery: the target is bound to an empty table.
AfterFailedQuery_BindsEmpty(k, var, cell, sess) ==
    [k EXCEPT ![var] = [kind |-> "table", cell |-> cell, sess |-> sess,
                        derived |-> FALSE, rows |-> {}]]

\* var = dw.method(...) where the call raises: the assignment does not
\* happen, the names keep their values.
AfterFailedQuery(k, var, cell, sess) == k

\* Fault variant of DwAfterExit: the name dw is dropped when its block ends
\* (as if the client were owned by the with block).
DwAfterExit_Unbound(bound) == FALSE

\* `with dw:` has no `as` target and does not unbind dw: the name bound by
\* `dw = DataWarehouse(...)` still holds the client after the block.
DwAfterExit(bound) == bound

Names == {"data", "durations", "realms", "metrics", "dimensions",
          "filter_values", "raw_realms", "raw_fields", "_"}

\* The rows of a table, as far as the notebooks look at them: the job's
\* Application and whether one of its values is <NA>.
Job(id, app, na) == [id |-> id, app |-> app, na |-> na]
NoRows == {}

Undefined == [kind |-> "undef", cell |-> 0, sess |-> "closed",
              derived |-> FALSE, rows |-> NoRows]
\* The value a query returns: where and in which context state it was made;
\* it has none of the columns the notebook computes.
Table(cell, sess) == [kind |-> "table", cell |-> cell, sess |-> sess,
                      derived |-> FALSE, rows |-> NoRows]
WithRows(t, rows) == [t EXCEPT !.rows = rows]

\* applications = ('orca', 'lammps', ...)
applications == {"orca", "lammps", "q-espresso", "gromacs", "specfem2d",
                 "namd", "gdal", "qmcchem"}

\* Results of the machine learning notebook's get_raw_data: jobs of listed
\* and of other applications ("NA": name not collected), with and without
\* <NA> values.
JobSamples ==
    { { Job("j1", "orca", FALSE), Job("j2", "gromacs", FALSE),
        Job("j3", "lammps", FALSE), Job("j4", "namd", TRUE),
        Job("j5", "python", FALSE), Job("j6", "NA", TRUE) },
      { Job("j1", "orca", FALSE), Job("j4", "namd", TRUE),
        Job("j5", "python", FALSE) } }

\* The rows a query may return.  Only the machine learning notebook looks
\* at the rows of its raw data; for every other query the model keeps none.
ResultRows(n, method) ==
    IF n = "ml" /\ method = "get_raw_data" THEN JobSamples ELSE {NoRows}

\* Fault variant of IsinFilter: no row is filtered out.
IsinFilter_KeepsAll(rows) == rows

\* data[data['Application'].isin(applications)]
IsinFilter(rows) == {r \in rows : r.app \in applications}

\* Fault variant of DropNa: no row is dropped.
DropNa_KeepsAll(rows) == rows

\* data.dropna()
DropNa(rows) == {r \in rows : ~r.na}

\* What the statement `method` on table t leaves in the variable.
Effect(method, t) ==
    CASE method = "derive" -> [t EXCEPT !.derived = TRUE]
      [] method = "isin"   -> [t EXCEPT !.rows = IsinFilter(t.rows)]
      [] method = "dropna" -> [t EXCEPT !.rows = DropNa(t.rows)]
      [] OTHER             -> t

\* train_test_split(X, y, test_size=0.10): the test set has ceil(0.10 * n)
\* of the n rows, the training set the others; any rows may be drawn.
TestSize(n) == (n + 9) \div 10
Splits(rows) ==
    { [train |-> rows \ t, test |-> t] :
         t \in {s \in SUBSET rows : Cardinality(s) = TestSize(Cardinality(rows))} }

\* classifier.classes_ after fit(X_train, y_train)
Classes(train) == {r.app : r \in train}

\* confusion_matrix(y_true, y_pred, labels=labels): cell <<t, p>> counts
\* the rows with true label t and predicted label p; rows with a label
\* that is not in labels are in no cell.
ConfusionMatrix(test, pred, labels) ==
    [c \in labels \X labels |->
        Cardinality({r \in test : r.app = c[1] /\ pred[r] = c[2]})]

RECURSIVE SumOver(_, _)
SumOver(m, cells) ==
    IF cells = {} THEN 0
    ELSE LET c == CHOOSE c \in cells : TRUE
         IN m[c] + SumOver(m, cells \ {c})
MatrixSum(m) == SumOver(m, DOMAIN m)

\* No split, classifier or matrix yet.
NoModel == [stage |-> "none", train |-> {}, test |-> {}, classes |-> {},
            pred |-> << >>, matrix |-> << >>]

----------------------------------------------------------------------------
(* State *)

Init ==
    /\ nb \in Notebooks
    /\ pc = 1
    /\ status = "running"
    /\ session = "closed"
    /\ pending = "none"
    /\ scopeExits = 0
    /\ exitVia = "none"
    /\ dwBound = FALSE
    /\ kernel = [n \in Names |-> Undefined]
    /\ fs \in {Absent} \cup UserFiles
    /\ environ \in InitialEnviron
    /\ shown = "none"
    /\ loaded = FALSE
    /\ inFlight = {}
    /\ everClosed = FALSE
    /\ envAtStart = environ
    /\ otherEnv = "/home/user"
    /\ ml = NoModel

\* The statement returned: go on with the next statement.
Advance ==
    /\ pc' = pc + 1
    /\ status' = "running"
    /\ shown' = "none"

\* The cell's last statement returned: go on with the next cell.
CellDone ==
    /\ pc' = NextCell(Prog, pc)
    /\ status' = "running"
    /\ shown' = "none"

\* Exception e leaves the cell: exception_handler prints its type on stderr,
\* and the user goes on with the next cell or stops.
Abort(e, target) ==
    /\ shown' = e
    /\ pending' = "none"
    /\ \/ pc' = target /\ status' = "running"
       \/ pc' = pc /\ status' = "halted"

\* Statement pc raises e: in a with body the exception is kept in flight
\* until __exit__ has run, elsewhere it leaves the cell at once.
RaiseAt(e) ==
    LET t == RaiseTarget(Prog, pc) IN
    IF t \in 1..Len(Prog) /\ Prog[t].op = "exit" /\ Prog[t].cell = Stmt.cell
    THEN /\ pending' = e
         /\ pc' = t
         /\ status' = "running"
         /\ shown' = "none"
    ELSE Abort(e, NextCell(Prog, pc))

----------------------------------------------------------------------------
(* The statements *)

\* try: with open(xdmod_data_env_path): pass / except FileNotFoundError:
\* (every file of the model is readable by its owner)
Probe ==
    /\ At("probe")
    /\ IF FileFound(fs) THEN CellDone ELSE Advance
    /\ UNCHANGED <<nb, everClosed, envAtStart, otherEnv, ml, inFlight,
                   loaded, session, pending, scopeExits, exitVia, dwBound,
                   kernel, fs, environ>>

\* with open(xdmod_data_env_path, 'w') as xdmod_data_env_file:
Creat ==
    /\ At("creat")
    /\ \/ /\ \E u \in Umasks : fs' = OpenForWrite(fs, u)
          /\ Advance
          /\ UNCHANGED pending
       \/ /\ Abort("OSError", NextCell(Prog, pc))
          /\ UNCHANGED fs
    /\ UNCHANGED <<nb, everClosed, envAtStart, otherEnv, ml, inFlight,
                   loaded, session, scopeExits, exitVia, dwBound, kernel,
                   environ>>

\* xdmod_data_env_file.write('XDMOD_API_TOKEN=') and the close of the file
Write ==
    /\ At("write")
    /\ \/ /\ fs' = WriteTokenLine(fs)
          /\ Advance
          /\ UNCHANGED pending
       \/ /\ Abort("OSError", NextCell(Prog, pc))
          /\ UNCHANGED fs
    /\ UNCHANGED <<nb, everClosed, envAtStart, otherEnv, ml, inFlight,
                   loaded, session, scopeExits, exitVia, dwBound, kernel,
                   environ>>

\* xdmod_data_env_path.chmod(0o600)
Chmod ==
    /\ At("chmod")
    /\ fs' = Chmod600(fs)
    /\ Advance
    /\ UNCHANGED <<nb, everClosed, envAtStart, otherEnv, ml, inFlight,
                   loaded, session, pending, scopeExits, exitVia, dwBound,
                   kernel, environ>>

\* "Open the xdmod-data.env file and paste your token": the user does, or not.
StoreToken ==
    /\ At("store")
    /\ \/ /\ fs.exists
          /\ \E t \in Tokens : fs' = [fs EXCEPT !.content = << <<TokenVar, t>> >>]
       \/ UNCHANGED fs
    /\ Advance
    /\ UNCHANGED <<nb, everClosed, envAtStart, otherEnv, ml, inFlight,
                   loaded, session, pending, scopeExits, exitVia, dwBound,
                   kernel, environ>>

\* load_dotenv(xdmod_data_env_path, override=True)
Load ==
    /\ At("load")
    /\ environ' = LoadDotenv(fs, environ)
    /\ otherEnv' = DotenvValue(fs, OtherVar, otherEnv)
    /\ loaded' = TRUE
    /\ Advance
    /\ UNCHANGED <<nb, everClosed, envAtStart, ml, inFlight, session,
                   pending, scopeExits, exitVia, dwBound, kernel, fs>>

\* dw = DataWarehouse('https://xdmod.access-ci.org')
Construct ==
    /\ At("new")
    /\ \/ /\ dwBound' = TRUE
          /\ Advance
          /\ UNCHANGED pending
       \/ /\ \E e \in Raises : Abort(e, NextCell(Prog, pc))
          /\ UNCHANGED dwBound
    /\ UNCHANGED <<nb, everClosed, envAtStart, otherEnv, ml, inFlight,
                   loaded, session, scopeExits, exitVia, kernel, fs,
                   environ>>

\* with dw:
WithEnter ==
    /\ At("enter")
    /\ IF ~dwBound
       THEN /\ Abort("NameError", EnterFailTarget(Prog, pc))
            /\ UNCHANGED <<session, scopeExits, exitVia>>
       ELSE \E r \in Outcomes :
            /\ session' = EnterScope(session, r)
            /\ IF r = "ok"
               THEN /\ Advance
                    /\ scopeExits' = 0
                    /\ exitVia' = "inside"
                    /\ UNCHANGED pending
               ELSE /\ Abort(r, EnterFailTarget(Prog, pc))
                    /\ UNCHANGED <<scopeExits, exitVia>>
    /\ UNCHANGED <<nb, everClosed, envAtStart, otherEnv, ml, inFlight,
                   loaded, dwBound, kernel, fs, environ>>

\* var = dw.method(...): the call is made; the kernel waits for it.
QueryCall ==
    /\ At("query")
    /\ pc \notin inFlight
    /\ inFlight' = inFlight \cup {pc}
    /\ pc' = AfterCall(pc)
    /\ UNCHANGED <<nb, everClosed, envAtStart, otherEnv, ml, loaded, status,
                   session, pending, scopeExits, exitVia, dwBound, kernel,
                   fs, environ, shown>>

\* var = dw.method(...): the call returns a table, which is bound to var,
\* or raises.
Query ==
    /\ At("query")
    /\ pc \in inFlight
    /\ inFlight' = inFlight \ {pc}
    /\ \E r \in Outcomes :
          /\ session' = AfterQuery(session, r)
          /\ IF r = "ok"
             THEN /\ \E rows \in ResultRows(nb, Stmt.method) :
                       kernel' = [kernel EXCEPT
                          ![Stmt.var] = WithRows(Table(Stmt.cell, session), rows)]
                  /\ Advance
                  /\ UNCHANGED pending
             ELSE /\ RaiseAt(r)
                  /\ kernel' = AfterFailedQuery(kernel, Stmt.var, Stmt.cell,
                                                session)
    /\ UNCHANGED <<nb, everClosed, envAtStart, otherEnv, ml, loaded,
                   scopeExits, exitVia, dwBound, fs, environ>>

\* display(var), a plot of var, a computation on var
UseTable ==
    /\ At("use")
    /\ IF kernel[Stmt.var].kind = "undef"
       THEN /\ RaiseAt("NameError")
            /\ UNCHANGED kernel
       ELSE IF Stmt.method = "plot_derived" /\ ~kernel[Stmt.var].derived
       THEN /\ RaiseAt("ValueError")
            /\ UNCHANGED kernel
       ELSE /\ Advance
            /\ kernel' = IF Stmt.var = "_"
                         THEN [kernel EXCEPT !["_"] = Undefined]
                         ELSE [kernel EXCEPT
                                 ![Stmt.var] = Effect(Stmt.method, @)]
            /\ UNCHANGED pending
    /\ UNCHANGED <<nb, everClosed, envAtStart, otherEnv, ml, inFlight,
                   loaded, session, scopeExits, exitVia, dwBound, fs,
                   environ>>

\* The scikit-learn cells: train_test_split, RandomForestClassifier.fit,
\* feature_importances_, confusion_matrix(y_test, classifier.predict(X_test)).
LearnStep ==
    /\ At("learn")
    /\ CASE Stmt.method = "split" ->
              IF kernel["data"].kind = "undef"
              THEN RaiseAt("NameError") /\ UNCHANGED ml
              ELSE IF Cardinality(kernel["data"].rows) < 2
              THEN RaiseAt("ValueError") /\ UNCHANGED ml
              ELSE /\ \E s \in Splits(kernel["data"].rows) :
                        ml' = [NoModel EXCEPT !.stage = "split",
                                              !.train = s.train,
                                              !.test = s.test]
                   /\ Advance
                   /\ UNCHANGED pending
         [] Stmt.method = "fit" ->
              IF ml.stage = "none"
              THEN RaiseAt("NameError") /\ UNCHANGED ml
              ELSE /\ ml' = [ml EXCEPT !.stage = "fitted",
                                       !.classes = Classes(ml.train)]
                   /\ Advance
                   /\ UNCHANGED pending
         [] Stmt.method = "importances" ->
              IF ml.stage # "fitted"
              THEN RaiseAt("NotFittedError") /\ UNCHANGED ml
              ELSE Advance /\ UNCHANGED <<ml, pending>>
         [] Stmt.method = "confusion_matrix" ->
              IF ml.stage = "none"
              THEN RaiseAt("NameError") /\ UNCHANGED ml
              ELSE IF \A r \in ml.test : r.app \notin applications
              THEN RaiseAt("ValueError") /\ UNCHANGED ml
              ELSE /\ \E pred \in [ml.test -> ml.classes] :
                        ml' = [ml EXCEPT
                                 !.stage = "matrix",
                                 !.pred = pred,
                                 !.matrix = ConfusionMatrix(ml.test, pred,
                                                            applications)]
                   /\ Advance
                   /\ UNCHANGED pending
    /\ UNCHANGED <<nb, everClosed, envAtStart, otherEnv, inFlight, loaded,
                   session, scopeExits, exitVia, dwBound, kernel, fs,
                   environ>>

\* The end of the with block: dw.__exit__(type, value, traceback), after
\* the body returned or with the exception the body raised.
WithExit ==
    /\ At("exit")
    /\ session' = ExitScope(session)
    /\ scopeExits' = scopeExits + 1
    /\ exitVia' = IF pending = "none" THEN "normal" ELSE "error"
    /\ \E r \in ExitResults :
          CASE r \in Raises -> Abort(r, NextCell(Prog, pc))
            [] r = "truthy" -> Advance /\ pending' = "none"
            [] r = "falsy"  -> IF pending = "none"
                               THEN Advance /\ UNCHANGED pending
                               ELSE Abort(pending, NextCell(Prog, pc))
    /\ dwBound' = DwAfterExit(dwBound)
    /\ everClosed' = TRUE
    /\ UNCHANGED <<nb, envAtStart, otherEnv, ml, inFlight, loaded, kernel,
                   fs, environ>>

\* The last cell has run.
Finish ==
    /\ status = "running"
    /\ AtEnd
    /\ status' = "done"
    /\ UNCHANGED <<nb, everClosed, envAtStart, otherEnv, ml, inFlight,
                   loaded, pc, session, pending, scopeExits, exitVia,
                   dwBound, kernel, fs, environ, shown>>

\* The user restarts the kernel and runs a notebook from the top: the
\* kernel's names are gone, the file stays.
Restart ==
    /\ status \in {"halted", "done"}
    /\ nb' \in Notebooks
    /\ pc' = 1
    /\ status' = "running"
    /\ session' = "closed"
    /\ pending' = "none"
    /\ scopeExits' = 0
    /\ exitVia' = "none"
    /\ dwBound' = FALSE
    /\ kernel' = [n \in Names |-> Undefined]
    /\ environ' \in InitialEnviron
    /\ shown' = "none"
    /\ loaded' = FALSE
    /\ inFlight' = {}
    /\ everClosed' = FALSE
    /\ envAtStart' = environ'
    /\ ml' = NoModel
    /\ UNCHANGED <<fs, otherEnv>>

Next ==
    \/ Probe
    \/ Creat
    \/ Write
    \/ Chmod
    \/ StoreToken
    \/ Load
    \/ Construct
    \/ WithEnter
    \/ QueryCall
    \/ Query
    \/ UseTable
    \/ LearnStep
    \/ WithExit
    \/ Finish
    \/ Restart

Spec == Init /\ [][Next]_vars

----------------------------------------------------------------------------
(* Properties *)

InScopeBody == status = "running" /\ InBody(Prog, pc)

\* C2: on every exit path of a `with dw:` block (the body returned, or a
\* statement of the body raised) the close step, dw.__exit__, has run
\* exactly once: while control is in the body it has not run, and once
\* control is outside it has run once for the context last entered, never
\* zero times and never twice.
CloseRunsOncePerScope ==
    /\ InScopeBody => exitVia = "inside" /\ scopeExits = 0
    /\ ~InScopeBody =>
          /\ exitVia # "inside"
          /\ exitVia \in {"normal", "error"} => scopeExits = 1

\* A with block was left by an exception of its body, and the close ran once.
ScopeLeftByError ==
    /\ ~InScopeBody
    /\ exitVia = "error"
    /\ scopeExits = 1
    /\ shown \in Raises

\* C5: the session is always either closed or open; it is closed whenever
\* control is outside a with body; it goes from open to closed only in the
\* step that ends a with block, which is the first close of that context;
\* and a call of a query method leaves the session state as it is.
SessionClosesOnlyAtScopeExit ==
    /\ [](session \in {"closed", "open"})
    /\ [](~InScopeBody => session = "closed")
    /\ [][(session = "open" /\ session' = "closed")
            => (At("exit") /\ scopeExits = 0 /\ scopeExits' = 1)]_vars
    /\ [][At("query") => session' = session]_vars

\* A query raised in an open session, and the session is still open when
\* control reaches the end of the with block.
QueryRaisedSessionStillOpen ==
    /\ At("exit")
    /\ pending \in Raises
    /\ session = "open"

\* C6: every result table was produced while the session was open: no
\* variable holds a table that a query returned in a closed session
\* (before the open, after the close, or after an open that failed).
TablesMadeInOpenSession ==
    \A n \in Names : kernel[n].kind = "table" => kernel[n].sess = "open"

\* A table made in an open session is held after the session has closed.
TableHeldAfterClose ==
    /\ kernel["data"].kind = "table"
    /\ kernel["data"].sess = "open"
    /\ session = "closed"
    /\ exitVia = "normal"

\* C7: every call of a data warehouse method is made inside a `with dw:`
\* block, while the session is open.
QueriesInsideScope ==
    At("query") => (session = "open" /\ InBody(Prog, pc))

\* Control is at a call of a data warehouse method, in an open session.
AtQueryInOpenSession ==
    /\ At("query")
    /\ session = "open"
    /\ Stmt.method \in {"get_data", "get_raw_data"}

\* C8: every display, plot or computation on a result table happens after
\* the session that produced the table has closed.
TablesUsedAfterClose ==
    At("use") => session = "closed"

\* C10: a credential file that exists because the create cell made it is
\* readable and writable by its owner only.
EnvFileOwnerOnly ==
    (fs.exists /\ fs.origin = "cell") => fs.mode \subseteq OwnerRW

\* C11: the credential file is loaded into the environment before the
\* session is opened: whenever dw has been constructed, and whenever control
\* is at or inside a `with dw:` block, load_dotenv has already run in this
\* kernel.
LoadBeforeConstructAndOpen ==
    /\ dwBound => loaded
    /\ (At("enter") \/ InScopeBody \/ session = "open") => loaded

\* dw is constructed from the token the load step took from the file, and
\* the first with block is being entered.
EnteringAfterLoad ==
    /\ At("enter")
    /\ dwBound
    /\ loaded
    /\ environ \in Tokens
    /\ exitVia = "none"

\* C20: no two queries are in flight at the same time: at most one call of
\* a data warehouse method has not returned yet, it is the call of the
\* statement the kernel is waiting at, and a call is made only when none is
\* in flight.
OneQueryInFlight ==
    /\ [](Cardinality(inFlight) <= 1)
    /\ [](inFlight # {} => (At("query") /\ inFlight = {pc}))
    /\ [][inFlight' \ inFlight # {} => inFlight = {}]_vars

\* A query is in flight in a session in which an earlier scope's query has
\* already returned its table.
QueryInFlightAfterEarlier ==
    /\ inFlight = {pc}
    /\ session = "open"
    /\ kernel["data"].kind = "table"
    /\ kernel["data"].cell < Stmt.cell

\* C21 as stated: once a with block has been left, nothing outside it holds
\* the client any more.
NoHolderAfterScopeClosed ==
    (~InScopeBody /\ exitVia \in {"normal", "error"}) => ~dwBound

\* C21, amended: the client is held by the kernel-level name dw, bound in a
\* cell of its own outside every with block; entering a block, a query and
\* leaving a block neither bind nor unbind it, so dw still holds the client
\* after every block; what never escapes a block is the open session: the
\* client dw holds outside a with body is closed.
DwHeldAcrossScopes ==
    /\ [](exitVia # "none" => dwBound)
    /\ [][(At("enter") \/ At("query") \/ At("exit")) => dwBound' = dwBound]_vars
    /\ []((dwBound /\ ~InScopeBody) => session = "closed")

\* A with block has been left normally, dw still holds the (closed) client,
\* and the next `with dw:` is about to use it.
DwHeldAfterScopeClosed ==
    /\ At("enter")
    /\ exitVia = "normal"
    /\ dwBound
    /\ session = "closed"

EnvCellKeepsExistingFile ==
    /\ [][(At("probe") /\ fs.exists) =>
            (fs' = fs /\ pc' = NextCell(Prog, pc))]_vars
    /\ [](At("creat") => ~fs.exists)
    /\ [](At("write") => (fs.origin = "cell" /\ fs.content = << >>))
    /\ [](At("chmod") => (fs.origin = "cell"
                            /\ fs.content = << <<TokenVar, "">> >>))

\* The create cell has run again, in a later kernel, on the file an earlier
\* run had made and the user had stored a token in: token and permissions
\* are as they were.
EnvCellRerunKeptToken ==
    /\ At("store")
    /\ fs.origin = "cell"
    /\ fs.mode = OwnerRW
    /\ fs.content = << <<TokenVar, "tokA">> >>

\* C27: when the call of a query raises, no variable of the notebook
\* changes: the target keeps the value it had before the cell ran (nothing
\* partial or empty is bound); and every table a variable holds is the one
\* a query statement of an earlier or the current cell returned for that
\* variable, which is what the following cells work on.
FailedQueryKeepsBinding ==
    /\ [][(At("query") /\ pc \in inFlight /\ pending' # "none")
            => kernel' = kernel]_vars
    /\ [](\A n \in Names : kernel[n].kind = "table" =>
             \E j \in 1..Len(Prog) :
                 /\ Prog[j].op = "query"
                 /\ Prog[j].var = n
                 /\ Prog[j].cell = kernel[n].cell
                 /\ j < pc)

\* The query of the with block just left raised, and the next cell works
\* on the table an earlier cell's query had returned.
UsingPreviousTable ==
    /\ At("use")
    /\ exitVia = "error"
    /\ kernel[Stmt.var].kind = "table"
    /\ kernel[Stmt.var].cell < Stmt.cell - 1

\* C26: the load step makes XDMOD_API_TOKEN equal to the value the file
\* stores for it, whatever value the variable had before, and leaves a
\* variable the file does not name as it was.
LoadOverridesFromFile ==
    [][At("load") =>
         /\ \A t \in Tokens \cup {""} :
               fs.content = << <<TokenVar, t>> >> => environ' = t
         /\ otherEnv' = otherEnv]_vars

\* The kernel started with XDMOD_API_TOKEN set to another value; the load
\* step has replaced it by the token of the file.
StaleTokenOverridden ==
    /\ At("new")
    /\ loaded
    /\ envAtStart = "stale"
    /\ fs.content = << <<TokenVar, "tokA">> >>
    /\ environ = "tokA"

\* C28: in the raw data notebook a fetch that returns binds `data` to a
\* table without the computed columns 'Wall Time (hours)' and 'Total memory
\* used (GB)'; whenever control is at a plot of these columns, the table
\* `data` holds has them, computed after its last fetch; and no such plot
\* fails for a missing column.
DerivedColumnsBeforePlots ==
    /\ [][(nb = "raw" /\ At("query") /\ Stmt.var = "data"
             /\ pc \in inFlight /\ pending' = "none")
            => /\ kernel'["data"].kind = "table"
               /\ kernel'["data"].cell = Stmt.cell
               /\ ~kernel'["data"].derived]_vars
    /\ []((nb = "raw" /\ At("use") /\ Stmt.method = "plot_derived"
             /\ kernel["data"].kind = "table")
            => kernel["data"].derived)
    /\ [][(nb = "raw" /\ At("use") /\ Stmt.method = "plot_derived")
            => shown' # "ValueError"]_vars

\* The second fetch has returned a new table, the columns have been
\* computed on it, and control is at the plot that reads them.
PlotAfterRefetch ==
    /\ nb = "raw"
    /\ At("use")
    /\ Stmt.method = "plot_derived"
    /\ Stmt.cell = 16
    /\ kernel["data"].cell = 14
    /\ kernel["data"].derived

\* C29: in the machine learning notebook, from the statement after dropna
\* up to the training, every row of `data` has one of the eight listed
\* applications and no <NA> value (so the float conversion and the split
\* see only such rows), and filtering or dropping again would change
\* nothing.
FilteredRowsUpToTraining ==
    (/\ nb = "ml"
     /\ status = "running"
     /\ ~AtEnd
     /\ kernel["data"].kind = "table"
     /\ \E j \in 1..(pc - 1) : Prog[j].method = "dropna"
     /\ \A j \in 1..(pc - 1) : Prog[j].method # "fit")
    => /\ \A r \in kernel["data"].rows : r.app \in applications /\ ~r.na
       /\ IsinFilter(kernel["data"].rows) = kernel["data"].rows
       /\ DropNa(kernel["data"].rows) = kernel["data"].rows

\* Control is at the split; of the six jobs fetched, the three of listed
\* applications without <NA> values are left.
SplitSeesFilteredRows ==
    /\ nb = "ml"
    /\ At("learn")
    /\ Stmt.method = "split"
    /\ Cardinality(kernel["data"].rows) = 3
    /\ \A r \in kernel["data"].rows : r.app \in applications /\ ~r.na

\* C30: every true label of the test set is one of the eight applications,
\* the fitted classifier knows only such labels, every predicted label is
\* one of them, and the cells of the confusion matrix built with
\* labels=applications add up to the size of the test set.
ConfusionMatrixCountsTestRows ==
    /\ \A r \in ml.test : r.app \in applications
    /\ ml.classes \subseteq applications
    /\ ml.stage = "matrix" =>
          /\ \A r \in ml.test : ml.pred[r] \in applications
          /\ MatrixSum(ml.matrix) = Cardinality(ml.test)

\* The matrix has been built; a test row was predicted with another label
\* than its own and is counted off the diagonal.
MatrixCountsMisclassifiedRow ==
    /\ ml.stage = "matrix"
    /\ ml.test # {}
    /\ \E r \in ml.test :
          /\ ml.pred[r] # r.app
          /\ ml.matrix[<<r.app, ml.pred[r]>>] = 1

====
